---- MODULE Spec2Model ----
(***************************************************************************)
(* Model of the two inference services of the repository:                  *)
(*   - sugarcane-disease-api/prediction.py : start-up loading of up to     *)
(*     four image classifiers, predict_sugarcane and its three paths       *)
(*     (ensemble, demo, heuristic), heuristic_predict, preprocess_image;   *)
(*   - crop-rotation-api/app.py : start-up loading of the crop classifier  *)
(*     and the POST /crop_recommendation handler.                          *)
(* The trained classifiers are opaque artifacts: what they output is a     *)
(* nondeterministic choice from a bounded set.                             *)
(***************************************************************************)
EXTENDS Integers, Sequences, FiniteSets, TLC

VARIABLES
    \* ---- sugarcane-disease-api/prediction.py ----
    pc,             \* "loading" while the module-level loop runs, then "ready"
    idx,            \* position of the start-up loop in _candidates (1-based)
    fileStatus,     \* environment: candidate path -> "missing" | "corrupt" | "ok"
    env,            \* environment: value of SUGARCANE_DEMO_MODE, a sequence of characters
    models,         \* the module-level list `models`
    MODEL_PRESENT,  \* the module-level flag
    DEMO_MODE,      \* the module-level flag
    arg,            \* filepath of the last predict_sugarcane call (the image behind it)
    path,           \* which branch the last call took: "none" before any call
    opened,         \* whether the last call tried to read the image file
    fed,            \* the tensors handed to the models by the last call, in order
    preds,          \* the output vectors collected by the last call
    outcome,        \* "none" | "returned" | "raised"
    result,         \* <<v>> when the last call returned v, <<>> otherwise
    \* ---- crop-rotation-api/app.py ----
    crop_pc,        \* "loading" | "serving"
    artifact,       \* environment: "ok" | "missing" | "corrupt" (the .pkl file)
    crop_model,     \* None or "model"
    request,        \* body of the last POST /crop_recommendation
    parsed,         \* whether the last request reached request.json
    input_data,     \* <<row>> handed to crop_model.predict by the last request, else <<>>
    prediction,     \* what crop_model.predict did on the last request
    response        \* <<[body |-> ..., status |-> ...]>> of the last request, else <<>>

diseaseVars == <<pc, idx, fileStatus, env, models, MODEL_PRESENT, DEMO_MODE,
                 arg, path, opened, fed, preds, outcome, result>>
cropVars == <<crop_pc, artifact, crop_model, request, parsed, input_data, prediction,
              response>>
vars == <<diseaseVars, cropVars>>

None == "None"

(***************************************************************************)
(* Bounds of the model.                                                    *)
(***************************************************************************)
\* resolution of a classifier's output vector: entries are multiples of 1/PScale
PScale == 2
\* the channel means tried are the values within Radius of a threshold or example value
Radius == 1
\* the numeric request fields range over 0..MaxNum (and absent)
MaxNum == 1

(***************************************************************************)
(* sugarcane-disease-api/prediction.py                                     *)
(***************************************************************************)
NumClasses == 5
Classes == 0 .. (NumClasses - 1)

_candidates ==
    << "./models/model2_84percentacc.h5",
       "./models/82_test_acc.h5",
       "./models/mobilenet_model.keras",
       "./models/inceptionv3_80.h5" >>

CandidateSet == { _candidates[i] : i \in 1 .. Len(_candidates) }

\* os.path.exists(path) then load_model(path); any exception gives None
_try_load(p) ==
    IF fileStatus[p] # "missing"
      THEN (IF fileStatus[p] = "corrupt" THEN None ELSE p)
      ELSE None

\* str.strip(): drop leading and trailing blanks
IsBlank(ch) == ch \in {" ", "\t", "\n"}

RECURSIVE LStrip(_)
LStrip(s) ==
    IF s = <<>> THEN s
    ELSE IF IsBlank(Head(s)) THEN LStrip(Tail(s)) ELSE s

RECURSIVE RStrip(_)
RStrip(s) ==
    IF s = <<>> THEN s
    ELSE IF IsBlank(s[Len(s)]) THEN RStrip(SubSeq(s, 1, Len(s) - 1)) ELSE s

Strip(s) == RStrip(LStrip(s))

\* os.getenv('SUGARCANE_DEMO_MODE', '') for the values tried; <<>> is unset or empty
EnvValues == { <<>>, <<"1">>, <<" ", "1", "\n">>, <<"0">> }

DemoModeOf(e) == Strip(e) = <<"1">>

----
\* An image file: unreadable, or readable with the channel means of its 128x128 RGB copy
Unreadable == [readable |-> FALSE, Rm |-> 0, Gm |-> 0, Bm |-> 0]
Img(r, g, b) == [readable |-> TRUE, Rm |-> r, Gm |-> g, Bm |-> b]

Max2(a, b) == IF a >= b THEN a ELSE b

\* heuristic_predict with the RedRot rule tried before the Yellow rule
heuristic_predict_RedFirst(image_path) ==
    IF ~image_path.readable THEN 0
    ELSE LET Rm == image_path.Rm
             Gm == image_path.Gm
             Bm == image_path.Bm
         IN  IF Gm - Max2(Rm, Bm) >= 20 THEN 0
             ELSE IF Rm - Max2(Gm, Bm) >= 20 THEN 2
             ELSE IF Rm > 120 /\ Gm > 120 /\ Bm < 100 THEN 4
             ELSE IF Rm > Gm /\ Gm > Bm /\ 180 < Rm + Gm + Bm /\ Rm + Gm + Bm < 540 THEN 3
             ELSE 1

\* heuristic_predict with the Rust rule tried before the RedRot rule
heuristic_predict_RustFirst(image_path) ==
    IF ~image_path.readable THEN 0
    ELSE LET Rm == image_path.Rm
             Gm == image_path.Gm
             Bm == image_path.Bm
         IN  IF Gm - Max2(Rm, Bm) >= 20 THEN 0
             ELSE IF Rm > 120 /\ Gm > 120 /\ Bm < 100 THEN 4
             ELSE IF Rm > Gm /\ Gm > Bm /\ 180 < Rm + Gm + Bm /\ Rm + Gm + Bm < 540 THEN 3
             ELSE IF Rm - Max2(Gm, Bm) >= 20 THEN 2
             ELSE 1

\* brightness = (Rm + Gm + Bm) / 3.0, so 60 < brightness < 180 is 180 < Rm+Gm+Bm < 540
heuristic_predict(image_path) ==
    IF ~image_path.readable THEN 0
    ELSE LET Rm == image_path.Rm
             Gm == image_path.Gm
             Bm == image_path.Bm
             brightness3 == Rm + Gm + Bm
         IN  IF Gm - Max2(Rm, Bm) >= 20 THEN 0
             ELSE IF Rm > 120 /\ Gm > 120 /\ Bm < 100 THEN 4
             ELSE IF Rm - Max2(Gm, Bm) >= 20 THEN 2
             ELSE IF Rm > Gm /\ Gm > Bm /\ 180 < brightness3 /\ brightness3 < 540 THEN 3
             ELSE 1

\* preprocess_image: load_img raises on an unreadable file; otherwise the 224x224
\* array of the image with a batch dimension, divided by 255
preprocess_image(image_path) ==
    IF image_path.readable
      THEN [raised |-> FALSE,
            x |-> << [image |-> image_path, target_size |-> 224, batch |-> 1,
                      divisor |-> 255] >>]
      ELSE [raised |-> TRUE, x |-> <<>>]

----
\* Output vectors of a classifier, in units of 1/PScale: a of the mass on class c
\* and the rest on the next class
Blend(c, a) ==
    [k \in Classes |->
        IF k = c THEN a
        ELSE IF k = (c + 1) % NumClasses THEN PScale - a
        ELSE 0]

ProbVecs == { Blend(c, a) : c \in Classes, a \in 1 .. PScale }

RECURSIVE SumAt(_, _)
SumAt(ps, c) == IF ps = <<>> THEN 0 ELSE Head(ps)[c] + SumAt(Tail(ps), c)

\* np.mean(preds_array, axis=0): the exact mean, kept as numerator over denominator
np_mean(ps) == [num |-> [c \in Classes |-> SumAt(ps, c)], den |-> Len(ps)]

\* np.argmax of a vector over Classes: the first index holding the maximum
np_argmax(v) ==
    CHOOSE c \in Classes :
        /\ \A k \in Classes : v[k] <= v[c]
        /\ \A k \in Classes : k < c => v[k] < v[c]

\* arg-max taken per model, then the most voted class (lowest index on a tie)
ensemble_label_Votes(ps) ==
    LET votes == [c \in Classes |->
                    Cardinality({ i \in 1 .. Len(ps) : np_argmax(ps[i]) = c })]
    IN  np_argmax(votes)

\* lines 50-53: average, then arg-max of the averaged vector
ensemble_label(ps) ==
    LET avg_preds == np_mean(ps)
    IN  np_argmax(avg_preds.num)

\* the branch predict_sugarcane takes, with DEMO_MODE tested before the models
Branch_DemoFirst(present, ms, demo) ==
    IF demo THEN "demo"
    ELSE IF ~present \/ ms = <<>> THEN "heuristic"
    ELSE "ensemble"

\* lines 41-47: the branch predict_sugarcane takes
Branch(present, ms, demo) ==
    IF ~present \/ ms = <<>>
      THEN (IF demo THEN "demo" ELSE "heuristic")
      ELSE "ensemble"

\* np.random.randint(low, high): any integer in low .. high-1
randint(low, high) == low .. (high - 1)

\* lines 29-30 with the model inserted at the front of the list
models_after_Prepend(ms, m) == IF m # None THEN <<m>> \o ms ELSE ms

\* lines 29-30: `if m is not None: models.append(m)`
models_after(ms, m) == IF m # None THEN Append(ms, m) ELSE ms

\* One turn of the module-level loop `for p in _candidates`
LoadCandidate ==
    /\ pc = "loading"
    /\ idx <= Len(_candidates)
    /\ models' = models_after(models, _try_load(_candidates[idx]))
    /\ idx' = idx + 1
    /\ UNCHANGED <<pc, fileStatus, env, MODEL_PRESENT, DEMO_MODE,
                   arg, path, opened, fed, preds, outcome, result>>

\* Lines 32-35, which end the module's import
FinishStartup ==
    /\ pc = "loading"
    /\ idx > Len(_candidates)
    /\ MODEL_PRESENT' = (Len(models) > 0)
    /\ DEMO_MODE' = DemoModeOf(env)
    /\ pc' = "ready"
    /\ UNCHANGED <<idx, fileStatus, env, models,
                   arg, path, opened, fed, preds, outcome, result>>

\* predict_sugarcane(filepath), the whole call
predict_sugarcane(filepath) ==
    /\ pc = "ready"
    /\ outcome = "none"
    /\ arg' = filepath
    /\ path' = Branch(MODEL_PRESENT, models, DEMO_MODE)
    /\ \/ /\ path' = "demo"
          /\ \E r \in randint(0, NumClasses) : result' = <<r>>
          /\ outcome' = "returned"
          /\ opened' = FALSE
          /\ fed' = <<>>
          /\ preds' = <<>>
       \/ /\ path' = "heuristic"
          /\ result' = <<heuristic_predict(filepath)>>
          /\ outcome' = "returned"
          /\ opened' = TRUE
          /\ fed' = <<>>
          /\ preds' = <<>>
       \/ /\ path' = "ensemble"
          /\ opened' = TRUE
          /\ LET pre == preprocess_image(filepath)
             IN  IF pre.raised
                   THEN /\ outcome' = "raised"
                        /\ result' = <<>>
                        /\ fed' = <<>>
                        /\ preds' = <<>>
                   ELSE \E ps \in [1 .. Len(models) -> ProbVecs] :
                        /\ fed' = [i \in 1 .. Len(models) |-> pre.x[1]]
                        /\ preds' = ps
                        /\ result' = <<ensemble_label(ps)>>
                        /\ outcome' = "returned"
    /\ UNCHANGED <<pc, idx, fileStatus, env, models, MODEL_PRESENT, DEMO_MODE>>

\* A caller, when no call is in progress, calls with one of the files
Caller(files) ==
    /\ outcome = "none"
    /\ \E f \in files : predict_sugarcane(f)

\* The caller takes the value (or the exception) and the frame of the call is gone
CallEnds ==
    /\ pc = "ready"
    /\ outcome # "none"
    /\ arg' = Unreadable
    /\ path' = "none"
    /\ opened' = FALSE
    /\ fed' = <<>>
    /\ preds' = <<>>
    /\ outcome' = "none"
    /\ result' = <<>>
    /\ UNCHANGED <<pc, idx, fileStatus, env, models, MODEL_PRESENT, DEMO_MODE>>

FileStatuses == {"missing", "corrupt", "ok"}

DiseaseInit ==
    /\ pc = "loading"
    /\ idx = 1
    /\ fileStatus \in [CandidateSet -> FileStatuses]
    /\ env \in EnvValues
    /\ models = <<>>
    /\ MODEL_PRESENT = FALSE
    /\ DEMO_MODE = FALSE      \* not bound before line 35; not read before "ready"
    /\ arg = Unreadable
    /\ path = "none"
    /\ opened = FALSE
    /\ fed = <<>>
    /\ preds = <<>>
    /\ outcome = "none"
    /\ result = <<>>

\* The process with no candidate file present and demo mode off, import finished
HeuristicOnlyInit ==
    /\ pc = "ready"
    /\ idx = Len(_candidates) + 1
    /\ fileStatus = [p \in CandidateSet |-> "missing"]
    /\ env = <<>>
    /\ models = <<>>
    /\ MODEL_PRESENT = FALSE
    /\ DEMO_MODE = FALSE
    /\ arg = Unreadable
    /\ path = "none"
    /\ opened = FALSE
    /\ fed = <<>>
    /\ preds = <<>>
    /\ outcome = "none"
    /\ result = <<>>

\* Image files tried against the whole service
Images == { Unreadable, Img(140, 100, 60), Img(50, 200, 50) }

\* Image files tried against the heuristic: every triple of means near a threshold
Anchors == {0, 20, 50, 60, 80, 100, 120, 140, 150, 180, 200, 255}
Levels == { v \in 0 .. 255 : \E t \in Anchors : v - t <= Radius /\ t - v <= Radius }
GridImages == { Img(r, g, b) : r \in Levels, g \in Levels, b \in Levels }

(***************************************************************************)
(* crop-rotation-api/app.py                                                *)
(***************************************************************************)
previous_crop_mapping ==
    [ Groundnut |-> 1, Millets |-> 2, Wheat |-> 3, Maize |-> 4, Cotton |-> 5,
      Sorghum |-> 6, Barley |-> 7 ]

soil_type_mapping == [ Loamy |-> 1, Clayey |-> 2, Sandy |-> 3, Saline |-> 4 ]

crop_mapping ==
    << "Wheat", "Rice", "Millets", "Cotton", "Groundnut", "Maize", "Sorghum", "Barley" >>

\* JSON values of a category field: a string, null or absent (both None after
\* data.get), or an array (unhashable as a dict key)
Str(s) == [t |-> "str", v |-> s]
NoneValue == [t |-> "none", v |-> ""]
ListValue == [t |-> "list", v |-> ""]

\* JSON values of a numeric field: <<n>>, or <<>> for null or absent
NumValues == { <<n>> : n \in 0 .. MaxNum } \cup { <<>> }

PreviousCropValues ==
    { Str(s) : s \in DOMAIN previous_crop_mapping \cup {"Rice", "wheat", ""} }
        \cup { NoneValue, ListValue }

SoilTypeValues ==
    { Str(s) : s \in DOMAIN soil_type_mapping \cup {"Peaty"} } \cup { NoneValue, ListValue }

\* Request bodies: no parsable JSON (request.json raises), JSON that is not an
\* object (null, an array), or an object with the six fields present or not
NoFields ==
    [ previous_crop |-> NoneValue, soil_type |-> NoneValue, moisture_level |-> <<>>,
      nitrogen |-> <<>>, phosphorus |-> <<>>, potassium |-> <<>> ]

ObjectBodies ==
    { [kind |-> "object", data |-> d] :
        d \in [ previous_crop : PreviousCropValues, soil_type : SoilTypeValues,
                moisture_level : NumValues, nitrogen : NumValues,
                phosphorus : NumValues, potassium : NumValues ] }

Bodies ==
    { [kind |-> k, data |-> NoFields] : k \in {"invalid", "null", "array"} }
        \cup ObjectBodies

\* dict.get(key, default) on a table with string keys: hashing an array raises
Hashable(key) == key.t # "list"
dict_get(table, key, default) ==
    IF key.t = "str" /\ key.v \in DOMAIN table THEN table[key.v] ELSE default

\* lines 63-70 with 0 as the code of an unknown category
feature_row_ZeroDefault(data) ==
    [ PreviousCrop |-> dict_get(previous_crop_mapping, data.previous_crop, 0),
      SoilType |-> dict_get(soil_type_mapping, data.soil_type, 0),
      MoistureLevel |-> data.moisture_level,
      Nitrogen |-> data.nitrogen,
      Phosphorus |-> data.phosphorus,
      Potassium |-> data.potassium ]

\* lines 63-70: the single row of the DataFrame
feature_row(data) ==
    [ PreviousCrop |-> dict_get(previous_crop_mapping, data.previous_crop, -1),
      SoilType |-> dict_get(soil_type_mapping, data.soil_type, -1),
      MoistureLevel |-> data.moisture_level,
      Nitrogen |-> data.nitrogen,
      Phosphorus |-> data.phosphorus,
      Potassium |-> data.potassium ]

\* What crop_model.predict can do: raise, or give one class index
NotCalled == [called |-> FALSE, raised |-> FALSE, index |-> 0]
Raised == [called |-> TRUE, raised |-> TRUE, index |-> 0]
Predicted(i) == [called |-> TRUE, raised |-> FALSE, index |-> i]
PredIndices == -1 .. (Len(crop_mapping) + 1)

Response(key, value, status) == [body |-> [key |-> key, value |-> value], status |-> status]

\* line 49
model_not_loaded ==
    Response("error",
             "Model not loaded. Ensure crop_rotation_recommendation_model.pkl exists.", 500)

\* line 48 left out: the handler goes on without a model
model_missing_Unchecked(cm) == FALSE

\* line 48: `if crop_model is None`
model_missing(cm) == cm = None

\* lines 83-84 without the handler: the exception reaches the framework
caught_Escapes(message) == Response("unhandled", message, 500)

\* lines 83-84: `except Exception as e: return jsonify({'error': str(e)})`
caught(message) == Response("error", message, 200)

\* lines 76-81 with the table indexed directly: a KeyError for an unknown index
label_response_Indexed(p) ==
    IF p \in DOMAIN crop_mapping
      THEN Response("Recommended Crop", crop_mapping[p], 200)
      ELSE caught("KeyError")

\* lines 76-81: the label of the predicted index, or the no-prediction body
label_response(p) ==
    IF p \in DOMAIN crop_mapping
      THEN Response("Recommended Crop", crop_mapping[p], 200)
      ELSE Response("Recommended Crop", "No prediction available", 200)

\* Lines 10-14: joblib.load at import
LoadCropModel ==
    /\ crop_pc = "loading"
    /\ crop_model' = IF artifact = "ok" THEN "model" ELSE None
    /\ crop_pc' = "serving"
    /\ UNCHANGED <<artifact, request, parsed, input_data, prediction, response>>

\* POST /crop_recommendation with body `body`, the whole handler
crop_recommendation(body) ==
    /\ crop_pc = "serving"
    /\ response = <<>>
    /\ request' = body
    /\ IF model_missing(crop_model)
         THEN /\ response' = <<model_not_loaded>>
              /\ parsed' = FALSE
              /\ input_data' = <<>>
              /\ prediction' = NotCalled
         ELSE /\ parsed' = TRUE
              /\ IF body.kind = "invalid"
                   THEN /\ response' = <<caught("400 Bad Request")>>
                        /\ input_data' = <<>>
                        /\ prediction' = NotCalled
                   ELSE IF body.kind # "object"
                   THEN /\ response' = <<caught("object has no attribute 'get'")>>
                        /\ input_data' = <<>>
                        /\ prediction' = NotCalled
                   ELSE IF ~Hashable(body.data.previous_crop)
                             \/ ~Hashable(body.data.soil_type)
                   THEN /\ response' = <<caught("unhashable type: 'list'")>>
                        /\ input_data' = <<>>
                        /\ prediction' = NotCalled
                   ELSE IF crop_model = None
                   THEN /\ response' =
                               <<caught("'NoneType' object has no attribute 'predict'")>>
                        /\ input_data' = <<>>
                        /\ prediction' = NotCalled
                   ELSE /\ input_data' = <<feature_row(body.data)>>
                        /\ \/ /\ prediction' = Raised
                              /\ response' = <<caught("predict failed")>>
                           \/ \E p \in PredIndices :
                              /\ prediction' = Predicted(p)
                              /\ response' = <<label_response(p)>>
    /\ UNCHANGED <<crop_pc, artifact, crop_model>>

\* A client, when no request is in progress, posts one of the bodies
Client(bodies) ==
    /\ response = <<>>
    /\ \E b \in bodies : crop_recommendation(b)

\* The response is sent and the request context is gone
ResponseSent ==
    /\ crop_pc = "serving"
    /\ response # <<>>
    /\ request' = [kind |-> "invalid", data |-> NoFields]
    /\ parsed' = FALSE
    /\ input_data' = <<>>
    /\ prediction' = NotCalled
    /\ response' = <<>>
    /\ UNCHANGED <<crop_pc, artifact, crop_model>>

CropInit ==
    /\ crop_pc = "loading"
    /\ artifact \in {"ok", "missing", "corrupt"}
    /\ crop_model = None      \* not bound before line 11 or 13
    /\ request = [kind |-> "invalid", data |-> NoFields]
    /\ parsed = FALSE
    /\ input_data = <<>>
    /\ prediction = NotCalled
    /\ response = <<>>

(***************************************************************************)
(* Specifications: the disease service, the heuristic alone over the grid  *)
(* of channel means, and the crop service.  Each leaves the other          *)
(* service at its initial state.                                           *)
(***************************************************************************)
Init == DiseaseInit /\ CropInit /\ artifact = "ok"

Next ==
    \/ LoadCandidate /\ UNCHANGED cropVars
    \/ FinishStartup /\ UNCHANGED cropVars
    \/ Caller(Images) /\ UNCHANGED cropVars
    \/ CallEnds /\ UNCHANGED cropVars

Spec == Init /\ [][Next]_vars

InitHeuristic == HeuristicOnlyInit /\ CropInit /\ artifact = "ok"

NextHeuristic ==
    \/ Caller(GridImages \cup {Unreadable}) /\ UNCHANGED cropVars
    \/ CallEnds /\ UNCHANGED cropVars

SpecHeuristic == InitHeuristic /\ [][NextHeuristic]_vars

InitCrop == HeuristicOnlyInit /\ CropInit

NextCrop ==
    \/ LoadCropModel /\ UNCHANGED diseaseVars
    \/ Client(Bodies) /\ UNCHANGED diseaseVars
    \/ ResponseSent /\ UNCHANGED diseaseVars

SpecCrop == InitCrop /\ [][NextCrop]_vars

(***************************************************************************)
(* Properties of the disease service                                       *)
(***************************************************************************)
Called == outcome # "none"

\* C1: heuristic_predict is a first-match-wins decision list over the channel
\* means: 0 if Gm - max(Rm,Bm) >= 20; else 4 if Rm > 120, Gm > 120 and Bm < 100;
\* else 2 if Rm - max(Gm,Bm) >= 20; else 3 if Rm > Gm > Bm and 60 < brightness < 180;
\* else 1.  Exactly one class of 0..4 is returned, that of the earliest rule met.
C1_DecisionList ==
    (Called /\ path = "heuristic" /\ arg.readable) =>
        LET Rm == arg.Rm
            Gm == arg.Gm
            Bm == arg.Bm
            healthy == Gm - Max2(Rm, Bm) >= 20
            yellow == Rm > 120 /\ Gm > 120 /\ Bm < 100
            redrot == Rm - Max2(Gm, Bm) >= 20
            rust == Rm > Gm /\ Gm > Bm /\ 3 * 60 < Rm + Gm + Bm /\ Rm + Gm + Bm < 3 * 180
            r == result[1]
        IN  /\ outcome = "returned"
            /\ Len(result) = 1
            /\ r \in 0 .. 4
            /\ (r = 0) <=> healthy
            /\ (r = 4) <=> (~healthy /\ yellow)
            /\ (r = 2) <=> (~healthy /\ ~yellow /\ redrot)
            /\ (r = 3) <=> (~healthy /\ ~yellow /\ ~redrot /\ rust)
            /\ (r = 1) <=> (~healthy /\ ~yellow /\ ~redrot /\ ~rust)

\* a triple that meets the Yellow, RedRot and Rust conditions at once gets Yellow
C1_Witness ==
    /\ Called /\ path = "heuristic" /\ arg.readable
    /\ arg.Rm > 120 /\ arg.Gm > 120 /\ arg.Bm < 100
    /\ arg.Rm - Max2(arg.Gm, arg.Bm) >= 20
    /\ arg.Rm > arg.Gm /\ arg.Gm > arg.Bm
    /\ result = <<4>>

\* C2 as stated: for the means Rm=140, Gm=100, Bm=60 heuristic_predict returns
\* class 3 (Rust)
C2_Original ==
    (Called /\ path = "heuristic" /\ arg = Img(140, 100, 60)) => result = <<3>>

\* C2 amended: for the means Rm=140, Gm=100, Bm=60 heuristic_predict returns class 2
\* (RedRot), since Rm - max(Gm,Bm) = 40 >= 20 meets the RedRot rule, which is
\* tried before the Rust rule
C2_Amended ==
    (Called /\ path = "heuristic" /\ arg = Img(140, 100, 60)) => result = <<2>>

C2_Witness ==
    /\ outcome = "returned" /\ path = "heuristic"
    /\ arg.readable /\ arg.Rm = 140 /\ arg.Gm = 100 /\ arg.Bm = 60
    /\ arg.Rm - Max2(arg.Gm, arg.Bm) >= 20
    /\ result = <<2>>

\* C3: the path of predict_sugarcane follows from the start-up state alone: the
\* ensemble when a model loaded, whatever DEMO_MODE; with no model and DEMO_MODE
\* a random integer, the image not read; with no model and no DEMO_MODE exactly
\* heuristic_predict(filepath).  Whatever is returned is an integer in 0..4.
C3_PathAndRange ==
    Called =>
        /\ models # <<>> => path = "ensemble"
        /\ (models = <<>> /\ DEMO_MODE) =>
              (path = "demo" /\ ~opened /\ outcome = "returned")
        /\ (models = <<>> /\ ~DEMO_MODE) =>
              (path = "heuristic" /\ outcome = "returned"
                 /\ result = <<heuristic_predict(arg)>>)
        /\ outcome = "returned" => (Len(result) = 1 /\ result[1] \in 0 .. 4)

\* a model loaded and demo mode on: the ensemble answers
C3_Witness ==
    /\ models # <<>> /\ DEMO_MODE
    /\ path = "ensemble" /\ outcome = "returned"

\* C4 as stated: whenever predict_sugarcane tries to read an unreadable image, on
\* the heuristic path and on the ensemble path alike, no exception reaches the
\* caller and the class returned is 0
C4_ReadFailureGivesZero ==
    (Called /\ opened /\ ~arg.readable) => (outcome = "returned" /\ result = <<0>>)

\* C5: on the ensemble path every loaded model gets the same preprocessed tensor,
\* and the class returned is the index of the maximum of the elementwise mean of
\* the N output vectors: arg-max is applied once, to the mean
MeanLeq(c, d) == SumAt(preds, c) * Len(preds) <= SumAt(preds, d) * Len(preds)

C5_ArgmaxOfMean ==
    (path = "ensemble" /\ outcome = "returned") =>
        /\ Len(preds) = Len(models) /\ Len(models) >= 1
        /\ Len(fed) = Len(models)
        /\ \A i \in 1 .. Len(fed) : <<fed[i]>> = preprocess_image(arg).x
        /\ \A c \in Classes : MeanLeq(c, result[1])
        /\ \A c \in Classes : c < result[1] => ~MeanLeq(result[1], c)

\* the class returned is not the one most models vote for
C5_Witness ==
    /\ path = "ensemble" /\ outcome = "returned"
    /\ \E c \in Classes :
         /\ c # result[1]
         /\ 2 * Cardinality({ i \in 1 .. Len(preds) : np_argmax(preds[i]) = c }) > Len(preds)

\* C10: after start-up and after any calls, models holds exactly the candidates
\* that exist and loaded, in candidate order, each candidate tried whatever
\* happened to the others; MODEL_PRESENT is true iff models is non-empty; no
\* predict_sugarcane call changes models, MODEL_PRESENT or DEMO_MODE
Loadable == SelectSeq(_candidates, LAMBDA p : fileStatus[p] = "ok")

C10_ModelsFixed ==
    /\ [](pc = "ready" => (models = Loadable /\ MODEL_PRESENT = (models # <<>>)))
    /\ [][pc = "ready" =>
            (models' = models /\ MODEL_PRESENT' = MODEL_PRESENT
               /\ DEMO_MODE' = DEMO_MODE)]_vars

\* two models loaded after a corrupt and a missing candidate, and a call was made
C10_Witness ==
    /\ pc = "ready" /\ Called
    /\ fileStatus[_candidates[1]] = "corrupt"
    /\ fileStatus[_candidates[2]] = "missing"
    /\ models = << _candidates[3], _candidates[4] >>
    /\ MODEL_PRESENT

(***************************************************************************)
(* Properties of the crop service                                          *)
(***************************************************************************)
Responded == crop_pc = "serving" /\ response # <<>>

\* C6: when the classifier failed to load (crop_model is None) every POST
\* /crop_recommendation, whatever its body, gets an {"error": ...} body with
\* status 500, and neither payload parsing nor prediction is attempted
C6_NoModelIs500 ==
    (Responded /\ crop_model = None) =>
        /\ response[1].status = 500
        /\ response[1].body.key = "error"
        /\ ~parsed
        /\ input_data = <<>>
        /\ ~prediction.called

\* no model, and a well-formed request
C6_Witness ==
    /\ Responded /\ crop_model = None /\ artifact = "corrupt"
    /\ request.kind = "object"
    /\ request.data.previous_crop = Str("Wheat")
    /\ request.data.soil_type = Str("Loamy")
    /\ request.data.nitrogen # <<>>

\* C7: with a loaded model every exception raised while handling a request (a
\* body that is no JSON object, a failing feature mapping, a failing predict) is
\* turned into a body with the single key "error" and status 200; every response
\* is a label, "No prediction available" or an error body
Labels == { crop_mapping[i] : i \in DOMAIN crop_mapping }

C7_ExceptionsCaught ==
    (Responded /\ crop_model # None) =>
        /\ response[1].status = 200
        /\ \/ response[1].body.key = "error"
           \/ /\ response[1].body.key = "Recommended Crop"
              /\ response[1].body.value \in Labels \cup {"No prediction available"}
        /\ ( \/ request.kind # "object"
             \/ request.data.previous_crop.t = "list"
             \/ request.data.soil_type.t = "list"
             \/ prediction.raised ) => response[1].body.key = "error"

\* a loaded model whose predict raised
C7_Witness ==
    /\ Responded /\ crop_model # None
    /\ prediction.raised
    /\ response[1].body.key = "error"

\* C8: a predicted index that is one of the 8 keys 1..8 of crop_mapping gives
\* {"Recommended Crop": crop_mapping[index]} with status 200; any other index
\* gives {"Recommended Crop": "No prediction available"} with status 200
C8_LabelOrNoPrediction ==
    (Responded /\ prediction.called /\ ~prediction.raised) =>
        /\ response[1].status = 200
        /\ response[1].body.key = "Recommended Crop"
        /\ IF prediction.index \in 1 .. 8
             THEN response[1].body.value = crop_mapping[prediction.index]
             ELSE response[1].body.value = "No prediction available"

\* an index past the table
C8_Witness ==
    /\ Responded /\ prediction.called /\ ~prediction.raised
    /\ prediction.index = 9
    /\ response[1].body.value = "No prediction available"

\* C9: the code handed to the model for a category is the table value for a
\* string that is a key and -1 for any other string and for an absent field;
\* such a category never gives an error response by itself, and the four
\* numeric fields are handed over unchanged
CodeOf(table, value) ==
    IF value.t = "str" /\ value.v \in DOMAIN table THEN table[value.v] ELSE -1

C9_CategoryCodes ==
    (Responded /\ crop_model # None /\ request.kind = "object"
        /\ request.data.previous_crop.t \in {"str", "none"}
        /\ request.data.soil_type.t \in {"str", "none"}) =>
        /\ Len(input_data) = 1
        /\ input_data[1].PreviousCrop = CodeOf(previous_crop_mapping, request.data.previous_crop)
        /\ input_data[1].SoilType = CodeOf(soil_type_mapping, request.data.soil_type)
        /\ input_data[1].MoistureLevel = request.data.moisture_level
        /\ input_data[1].Nitrogen = request.data.nitrogen
        /\ input_data[1].Phosphorus = request.data.phosphorus
        /\ input_data[1].Potassium = request.data.potassium
        /\ prediction.called
        /\ ~prediction.raised => response[1].body.key = "Recommended Crop"

\* an unknown crop and an absent soil type, and a label all the same
C9_Witness ==
    /\ Responded /\ input_data # <<>>
    /\ request.data.previous_crop = Str("Rice")
    /\ request.data.soil_type = NoneValue
    /\ input_data[1].PreviousCrop = -1
    /\ input_data[1].SoilType = -1
    /\ request.data.nitrogen # request.data.phosphorus
    /\ response[1].body.key = "Recommended Crop"

====
